---- MODULE Spec2Model ----
(***************************************************************************)
(* A model of shucks/schema.py: the recursive matcher `check`, its         *)
(* dispatch table `_group_c`, the handlers `_c_*` and the chained `Error`. *)
(*                                                                         *)
(* Python objects are records of one shape, tagged by their runtime type:  *)
(*   t      type(obj).__name__                                             *)
(*   s      a name payload (text of a str, name of a class or function)    *)
(*   n      an integer payload (value of an int)                           *)
(*   keys   the keys of a dict, in insertion order                         *)
(*   items  the elements of a list or tuple, the values of a dict, or the  *)
(*          attributes of a combinator object, in __slots__ order          *)
(* The result of a call is an outcome: a returned object, a raised         *)
(* schema.Error (code, info, __cause__) or another raised exception.       *)
(***************************************************************************)
EXTENDS Integers, Sequences, FiniteSets, TLC

VARIABLES figure, data, auto, extra, pc, outcome, subchecks

vars == <<figure, data, auto, extra, pc, outcome, subchecks>>

(***************************************************************************)
(* Bounds of the explored inputs.                                          *)
(***************************************************************************)
\* longest sequence figure
MaxFig == 3
\* longest data sequence
MaxData == 3
\* deepest nesting of mapping figures
MaxDepth == 3

(***************************************************************************)
(* Objects.                                                                *)
(***************************************************************************)
Obj(t, s, n, keys, items) ==
    [t |-> t, s |-> s, n |-> n, keys |-> keys, items |-> items]

int(n) == Obj("int", "", n, <<>>, <<>>)
str(s) == Obj("str", s, 0, <<>>, <<>>)
bool(b) == Obj("bool", IF b THEN "True" ELSE "False", IF b THEN 1 ELSE 0, <<>>, <<>>)
None == Obj("NoneType", "None", 0, <<>>, <<>>)
Ellipsis == Obj("ellipsis", "Ellipsis", 0, <<>>, <<>>)
Cls(name) == Obj("type", name, 0, <<>>, <<>>)
Fn(name) == Obj("function", name, 0, <<>>, <<>>)
list(items) == Obj("list", "", 0, <<>>, items)
tuple(items) == Obj("tuple", "", 0, <<>>, items)
dict(keys, items) == Obj("dict", "", 0, keys, items)

\* schema.py:12 and schema.py:16, two distinct plain objects
__marker == Obj("object", "__marker", 0, <<>>, <<>>)
nil == Obj("object", "nil", 0, <<>>, <<>>)

\* the combinator classes; Op.__new__ keeps the values as the tuple's elements
Nex(values) == Obj("Nex", "", 0, <<>>, values)
And(values) == Obj("And", "", 0, <<>>, values)
Opt(value) == Obj("Opt", "", 0, <<>>, <<value>>)
Con(change, fig) == Obj("Con", "", 0, <<>>, <<change, fig>>)
Rou(fig, success, failure) == Obj("Rou", "", 0, <<>>, <<fig, success, failure>>)
Not(fig) == Obj("Not", "", 0, <<>>, <<fig>>)
Exc(fig, exceptions) == Obj("Exc", "", 0, <<>>, <<fig, exceptions>>)

(***************************************************************************)
(* Classes: the method resolution order of each class the model uses, and  *)
(* the abstract base classes the dispatch table tests.                     *)
(***************************************************************************)
Mro(c) ==
    CASE c = "bool" -> {"bool", "int", "object"}
      [] c \in {"Nex", "And"} -> {c, "Op", "tuple", "object"}
      [] c = "Error" -> {"Error", "Exception", "BaseException", "object"}
      [] c \in {"ValueError", "TypeError", "AttributeError", "NameError"} ->
            {c, "Exception", "BaseException", "object"}
      [] c = "UnboundLocalError" ->
            {c, "NameError", "Exception", "BaseException", "object"}
      [] c \in {"KeyError", "IndexError"} ->
            {c, "LookupError", "Exception", "BaseException", "object"}
      [] OTHER -> {c, "object"}

issubclass(c, base) == base \in Mro(c)

IsCallable(c) == c \in {"function", "type"}
IsMapping(c) == c = "dict"
IsIterable(c) == c \in {"list", "tuple", "dict", "str", "Nex", "And"}

(***************************************************************************)
(* Outcomes.                                                               *)
(***************************************************************************)
Return(v) == [kind |-> "ok", val |-> v, code |-> "", info |-> <<>>, cause |-> <<>>]

\* Error(code, *info): a fresh Error has no __cause__
Error(code, info) ==
    [kind |-> "err", val |-> None, code |-> code, info |-> info, cause |-> <<>>]

\* raise e from cause
From(e, cause) == [e EXCEPT !.cause = <<cause>>]

\* an exception that is not a schema.Error, by class name
Raise(name) ==
    [kind |-> "exc", val |-> None, code |-> name, info |-> <<>>, cause |-> <<>>]

\* the class of a raised outcome
RaisedClass(r) == IF r.kind = "err" THEN "Error" ELSE r.code

\* Error.chain: the error, then its __cause__, until there is none
RECURSIVE chain(_)
chain(e) == IF e.cause = <<>> THEN <<e>> ELSE <<e>> \o chain(e.cause[1])

(***************************************************************************)
(* Python built-ins the handlers rely on.                                  *)
(***************************************************************************)
\* every str the model draws has at most one character
StrLen(s) == IF s = "" THEN 0 ELSE 1

\* iter(obj): the elements a for loop draws from an iterable object
Elements(obj) ==
    CASE obj.t \in {"list", "tuple", "Nex", "And"} -> obj.items
      [] obj.t = "dict" -> obj.keys
      [] obj.t = "str" -> IF obj.s = "" THEN <<>> ELSE <<obj>>
      [] OTHER -> <<>>

\* enumerate(data) as the sequence of (index, element) pairs still to come
enumerate(xs) == [i \in 1..Len(xs) |-> <<i - 1, xs[i]>>]

\* data[key]: the value, or the exception the subscription raises
Subscript(obj, key) ==
    IF obj.t = "dict"
    THEN IF \E i \in 1..Len(obj.keys) : obj.keys[i] = key
         THEN Return(obj.items[CHOOSE i \in 1..Len(obj.keys) : obj.keys[i] = key])
         ELSE Raise("KeyError")
    ELSE IF obj.t \in {"list", "tuple"} /\ key.t \in {"int", "bool"}
    THEN IF key.n >= 0 /\ key.n < Len(obj.items) THEN Return(obj.items[key.n + 1])
         ELSE IF key.n < 0 /\ -key.n <= Len(obj.items)
         THEN Return(obj.items[Len(obj.items) + key.n + 1])
         ELSE Raise("IndexError")
    ELSE Raise("TypeError")

\* result[key] = value on a dict under construction
SetItem(obj, key, value) ==
    IF \E i \in 1..Len(obj.keys) : obj.keys[i] = key
    THEN LET i == CHOOSE j \in 1..Len(obj.keys) : obj.keys[j] = key
         IN  dict(obj.keys, [obj.items EXCEPT ![i] = value])
    ELSE dict(Append(obj.keys, key), Append(obj.items, value))

(***************************************************************************)
(* The callables handed to the engine: the predicates of the docstrings    *)
(* (less, more) and the built-ins they use as conversions (len, int).      *)
(***************************************************************************)
\* def less(value): return value < 5
less(value) ==
    IF value.t \in {"int", "bool"} THEN Return(bool(value.n < 5)) ELSE Raise("TypeError")

\* def more(value): return value > 9
more(value) ==
    IF value.t \in {"int", "bool"} THEN Return(bool(value.n > 9)) ELSE Raise("TypeError")

\* len(value)
len(value) ==
    CASE value.t = "str" -> Return(int(StrLen(value.s)))
      [] value.t \in {"list", "tuple", "Nex", "And"} -> Return(int(Len(value.items)))
      [] value.t = "dict" -> Return(int(Len(value.keys)))
      [] OTHER -> Raise("TypeError")

\* int(value): a str converts when it is a numeral ("5" is the model's one)
ToInt(value) ==
    CASE value.t \in {"int", "bool"} -> Return(int(value.n))
      [] value.t = "str" -> IF value.s = "5" THEN Return(int(5)) ELSE Raise("ValueError")
      [] OTHER -> Raise("TypeError")

\* callee(value) for the objects above; any other object is not callable
Call(callee, value) ==
    CASE callee = Fn("less") -> less(value)
      [] callee = Fn("more") -> more(value)
      [] callee = Fn("len") -> len(value)
      [] callee = Cls("int") -> ToInt(value)
      [] OTHER -> Raise("TypeError")

\* the rewrite hooks handed in `extra`: one that leaves every figure alone,
\* one that resolves the alias "number" to the type int
ignore(fig) == nil
alias(fig) == IF fig = str("n") THEN Cls("int") ELSE nil

Hook(get, fig) ==
    CASE get = "ignore" -> Return(ignore(fig))
      [] get = "alias" -> Return(alias(fig))
      [] OTHER -> Raise("TypeError")

(***************************************************************************)
(* The handlers.  Each takes (figure, data, **extra) with extra holding    *)
(* check's auto and extra, and hands both on to the checks it makes.       *)
(***************************************************************************)
RECURSIVE check(_, _, _, _)
RECURSIVE NexLoop(_, _, _, _, _, _)
RECURSIVE AndLoop(_, _, _, _, _, _)
RECURSIVE ArrayFigures(_, _, _, _, _, _, _, _, _, _)
RECURSIVE ArrayData(_, _, _, _, _, _, _, _, _, _, _)
RECURSIVE DictLoop(_, _, _, _, _, _)

\* _c_nex: the for/else over the values; `error` is unbound when there are none
NexLoop(values, i, data_, auto_, extra_, error) ==
    IF i > Len(values)
    THEN IF error = <<>> THEN Raise("UnboundLocalError") ELSE error[1]
    ELSE LET result == check(values[i], data_, auto_, extra_)
         IN  IF result.kind = "err"
             THEN NexLoop(values, i + 1, data_, auto_, extra_, <<result>>)
             ELSE result

_c_nex(figure_, data_, auto_, extra_) ==
    IF ~IsIterable(figure_.t) THEN Raise("TypeError")
    ELSE NexLoop(Elements(figure_), 1, data_, auto_, extra_, <<>>)

\* _c_and: the loop over the values, keeping the last result that is not the marker
AndLoop(values, i, data_, auto_, extra_, result) ==
    IF i > Len(values) THEN Return(result)
    ELSE LET subresult == check(values[i], data_, auto_, extra_)
         IN  IF subresult.kind # "ok" THEN subresult
             ELSE AndLoop(values, i + 1, data_, auto_, extra_,
                          IF subresult.val # __marker THEN subresult.val ELSE result)

_c_and(figure_, data_, auto_, extra_) ==
    IF ~IsIterable(figure_.t) THEN Raise("TypeError")
    ELSE AndLoop(Elements(figure_), 1, data_, auto_, extra_, __marker)

_c_not(figure_, data_, auto_, extra_) ==
    IF figure_.t # "Not" THEN Raise("AttributeError")
    ELSE LET r == check(figure_.items[1], data_, auto_, extra_)
         IN  CASE r.kind = "err" -> Return(data_)
               [] r.kind = "exc" -> r
               [] OTHER -> Error("not", <<figure_.items[1], data_>>)

\* `except figure.exceptions:` whether the clause catches the raised outcome r
Catches(exceptions, r) ==
    CASE exceptions.t = "type" -> issubclass(RaisedClass(r), exceptions.s)
      [] exceptions.t = "tuple" ->
            \E i \in 1..Len(exceptions.items) :
                issubclass(RaisedClass(r), exceptions.items[i].s)
      [] OTHER -> FALSE

_c_exc(figure_, data_, auto_, extra_) ==
    IF figure_.t # "Exc" THEN Raise("AttributeError")
    ELSE LET result == check(figure_.items[1], data_, auto_, extra_)
         IN  IF result.kind = "ok" THEN result
             ELSE IF figure_.items[2].t \notin {"type", "tuple"} THEN Raise("TypeError")
             ELSE IF Catches(figure_.items[2], result)
             THEN Error("except", <<figure_.items[1], figure_.items[2], data_>>)
             ELSE result

\* _c_type returning the marker where it returns the data
_c_type_marker(figure_, data_, auto_, extra_) ==
    IF figure_.t # "type" THEN Raise("TypeError")
    ELSE IF issubclass(data_.t, figure_.s) THEN Return(__marker)
    ELSE Error("type", <<figure_, Cls(data_.t)>>)

_c_type(figure_, data_, auto_, extra_) ==
    IF figure_.t # "type" THEN Raise("TypeError")
    ELSE IF issubclass(data_.t, figure_.s) THEN Return(data_)
    ELSE Error("type", <<figure_, Cls(data_.t)>>)

_c_object(figure_, data_, auto_, extra_) ==
    IF figure_ = data_ THEN Return(data_)
    ELSE Error("object", <<figure_, data_>>)

_c_callable(figure_, data_, auto_, extra_) ==
    LET result == Call(figure_, data_)
    IN  CASE result.kind # "ok" -> result
          [] result.val = bool(TRUE) -> Return(__marker)
          [] result.val = bool(FALSE) -> Error("call", <<figure_, data_>>)
          [] OTHER -> result

_c_con(figure_, data_, auto_, extra_) ==
    IF figure_.t # "Con" THEN Raise("AttributeError")
    ELSE LET changed == Call(figure_.items[1], data_)
         IN  IF changed.kind # "ok" THEN changed
             ELSE LET r == check(figure_.items[2], changed.val, FALSE, <<>>)
                  IN  IF r.kind # "ok" THEN r ELSE Return(__marker)

_c_rou(figure_, data_, auto_, extra_) ==
    IF figure_.t # "Rou" THEN Raise("AttributeError")
    ELSE LET r == check(figure_.items[1], data_, auto_, extra_)
         IN  CASE r.kind = "err" -> check(figure_.items[3], data_, auto_, extra_)
               [] r.kind = "exc" -> r
               [] OTHER -> check(figure_.items[2], data_, auto_, extra_)

(***************************************************************************)
(* _c_array.  data_g is the sequence of (index, element) pairs the data    *)
(* iterator has still to yield; checked counts the element checks made.    *)
(* A run yields [out |-> outcome, checked |-> count].                      *)
(***************************************************************************)
\* helpers.prepend(data_g, source): an iterator yielding source, then data_g
prepend(data_g, source) == <<source>> \o data_g

\* the test of line 396 with its comparison turned around
yields_reversed(multi, size, limit) == multi /\ size > limit

\* line 396: a failed element is handed back instead of raising `index`
yields(multi, size, limit) == multi /\ size < limit

\* the test of line 408 off by one
too_small_inclusive(size, limit) == size <= limit

\* line 408
too_small(size, limit) == size < limit

\* lines 408-418: after the figure loop
ArrayEnd(data_g, result, size, limit) ==
    IF too_small(size, limit) THEN Error("small", <<int(limit), int(size)>>)
    ELSE IF data_g # <<>> THEN Error("large", <<int(limit)>>)
    ELSE Return(list(result))

\* lines 384-406: one turn of `for figure in figure_g`, fi the next position
ArrayFigures(figs, fi, data_g, cache, result, size, limit, auto_, extra_, checked) ==
    IF fi > Len(figs)
    THEN [out |-> ArrayEnd(data_g, result, size, limit), checked |-> checked]
    ELSE LET multi == figs[fi] = Ellipsis
             limit2 == IF multi THEN limit - 1 ELSE limit
             fig == IF multi THEN cache ELSE figs[fi]
         IN  IF fig = __marker
             THEN [out |-> Raise("ValueError"), checked |-> checked]
             ELSE ArrayData(figs, fi, fig, multi, data_g, result, size, limit2,
                            auto_, extra_, checked)

\* lines 391-406: one turn of `for source in data_g` for the figure at fi
ArrayData(figs, fi, fig, multi, data_g, result, size, limit, auto_, extra_, checked) ==
    IF data_g = <<>>
    THEN ArrayFigures(figs, fi + 1, data_g, fig, result, size, limit,
                      auto_, extra_, checked)
    ELSE LET source == Head(data_g)
             rest == Tail(data_g)
             subresult == check(fig, source[2], auto_, extra_)
         IN  CASE subresult.kind = "err" ->
                    IF yields(multi, size, limit)
                    THEN ArrayFigures(figs, fi + 1, prepend(rest, source), fig, result,
                                      size, limit, auto_, extra_, checked + 1)
                    ELSE [out |-> From(Error("index", <<int(source[1])>>), subresult),
                          checked |-> checked + 1]
               [] subresult.kind = "exc" -> [out |-> subresult, checked |-> checked + 1]
               [] OTHER ->
                    LET result2 == IF subresult.val # __marker
                                   THEN Append(result, subresult.val) ELSE result
                    IN  IF multi
                        THEN ArrayData(figs, fi, fig, multi, rest, result2, size, limit,
                                       auto_, extra_, checked + 1)
                        ELSE ArrayFigures(figs, fi + 1, rest, fig, result2, size + 1,
                                          limit, auto_, extra_, checked + 1)

\* lines 373-382, then the loop: len(figure) and enumerate(data) may raise
ArrayRun(figure_, data_, auto_, extra_) ==
    IF ~IsIterable(figure_.t) \/ ~IsIterable(data_.t)
    THEN [out |-> Raise("TypeError"), checked |-> 0]
    ELSE ArrayFigures(Elements(figure_), 1, enumerate(Elements(data_)), __marker,
                      <<>>, 0, Len(Elements(figure_)), auto_, extra_, 0)

_c_array(figure_, data_, auto_, extra_) == ArrayRun(figure_, data_, auto_, extra_).out

(***************************************************************************)
(* _c_dict.                                                                *)
(***************************************************************************)
\* line 438 without its `from error`
value_error_unchained(figure_k, error) == Error("value", <<figure_k>>)

\* line 438: raise Error('value', figure_k) from error
value_error(figure_k, error) == From(Error("value", <<figure_k>>), error)

\* line 439 without the marker test
keeps_all(subresult) == TRUE

\* line 439: whether the entry's result goes into the copy
keeps(subresult) == subresult # __marker

\* lines 425-440: one turn of `for (figure_k, figure_v) in figure.items()`
DictLoop(figure_, i, data_, auto_, extra_, result) ==
    IF i > Len(figure_.keys) THEN Return(result)
    ELSE LET optional == figure_.keys[i].t = "Opt"
             figure_k == IF optional THEN figure_.keys[i].items[1] ELSE figure_.keys[i]
             data_v == Subscript(data_, figure_k)
         IN  IF data_v.kind # "ok"
             THEN IF RaisedClass(data_v) # "KeyError" THEN data_v
                  ELSE IF optional
                  THEN DictLoop(figure_, i + 1, data_, auto_, extra_, result)
                  ELSE Error("key", <<figure_k>>)
             ELSE LET subresult == check(figure_.items[i], data_v.val, auto_, extra_)
                  IN  CASE subresult.kind = "err" -> value_error(figure_k, subresult)
                        [] subresult.kind = "exc" -> subresult
                        [] OTHER ->
                             DictLoop(figure_, i + 1, data_, auto_, extra_,
                                      IF keeps(subresult.val)
                                      THEN SetItem(result, figure_k, subresult.val)
                                      ELSE result)

_c_dict(figure_, data_, auto_, extra_) ==
    IF figure_.t # "dict" THEN Raise("AttributeError")
    ELSE DictLoop(figure_, 1, data_, auto_, extra_, dict(<<>>, <<>>))

(***************************************************************************)
(* The dispatch table and check.                                           *)
(***************************************************************************)
\* _group_c: the handlers in table order
_group_c ==
    <<"_c_type", "_c_nex", "_c_and", "_c_not", "_c_exc", "_c_callable",
      "_c_dict", "_c_array", "_c_con", "_c_rou">>

\* the lambda paired with each handler, applied to cls = type(figure)
accepts(use, cls) ==
    CASE use = "_c_type" -> issubclass(cls, "type")
      [] use = "_c_nex" -> issubclass(cls, "Nex")
      [] use = "_c_and" -> issubclass(cls, "And")
      [] use = "_c_not" -> issubclass(cls, "Not")
      [] use = "_c_exc" -> issubclass(cls, "Exc")
      [] use = "_c_callable" -> IsCallable(cls)
      [] use = "_c_dict" -> IsMapping(cls)
      [] use = "_c_array" -> IsIterable(cls) /\ ~issubclass(cls, "str")
      [] use = "_c_con" -> issubclass(cls, "Con")
      [] use = "_c_rou" -> issubclass(cls, "Rou")
      [] OTHER -> FALSE

\* helpers.select(group, cls): the first handler whose test accepts cls
select(group, cls) ==
    IF \E i \in 1..Len(group) : accepts(group[i], cls)
    THEN group[CHOOSE i \in 1..Len(group) :
                   /\ accepts(group[i], cls)
                   /\ \A j \in 1..(i - 1) : ~accepts(group[j], cls)]
    ELSE "SelectError"

\* lines 577-580
selected(cls) ==
    IF select(_group_c, cls) = "SelectError" THEN "_c_object" ELSE select(_group_c, cls)

\* use(figure, data, auto = auto, extra = extra) for a selected handler
execute(use, figure_, data_, auto_, extra_) ==
    CASE use = "_c_type" -> _c_type(figure_, data_, auto_, extra_)
      [] use = "_c_nex" -> _c_nex(figure_, data_, auto_, extra_)
      [] use = "_c_and" -> _c_and(figure_, data_, auto_, extra_)
      [] use = "_c_not" -> _c_not(figure_, data_, auto_, extra_)
      [] use = "_c_exc" -> _c_exc(figure_, data_, auto_, extra_)
      [] use = "_c_callable" -> _c_callable(figure_, data_, auto_, extra_)
      [] use = "_c_dict" -> _c_dict(figure_, data_, auto_, extra_)
      [] use = "_c_array" -> _c_array(figure_, data_, auto_, extra_)
      [] use = "_c_con" -> _c_con(figure_, data_, auto_, extra_)
      [] use = "_c_rou" -> _c_rou(figure_, data_, auto_, extra_)
      [] OTHER -> _c_object(figure_, data_, auto_, extra_)

\* line 582: the module defines no _c_next, so reading the name raises
_c_next == Raise("NameError")

\* lines 577-585: cls is the type of the figure check was called with,
\* figure_ what the hook loop left in `figure`
dispatch(cls, figure_, data_, auto_, extra_) ==
    LET use == selected(cls)
        run == execute(use, figure_, data_, auto_, extra_)
    IN  IF ~auto_ THEN run
        ELSE IF _c_next.kind # "ok" THEN _c_next
        ELSE IF figure_ = _c_next.val THEN run
        ELSE LET typed == _c_type(Cls(cls), data_, FALSE, <<>>)
             IN  IF typed.kind # "ok" THEN typed ELSE run

\* lines 571-575: the hook loop from position i on
RECURSIVE hooks(_, _, _, _, _, _)
hooks(cls, figure_, i, data_, auto_, extra_) ==
    IF i > Len(extra_) THEN dispatch(cls, figure_, data_, auto_, extra_)
    ELSE LET got == Hook(extra_[i], figure_)
         IN  IF got.kind # "ok" THEN got
             ELSE IF got.val = nil
             THEN hooks(cls, got.val, i + 1, data_, auto_, extra_)
             ELSE check(got.val, data_, auto_, extra_)

check(figure_, data_, auto_, extra_) ==
    IF figure_ = nil THEN Return(None)
    ELSE hooks(figure_.t, figure_, 1, data_, auto_, extra_)

(***************************************************************************)
(* The calls explored: one call of check per behaviour, its arguments      *)
(* drawn from the families below.                                          *)
(***************************************************************************)
SeqsUpTo(S, n) == UNION {[1..k -> S] : k \in 0..n}

\* sequence figures over two types, a literal-free predicate and the marker `...`
ArrayFigs == {list(xs) : xs \in SeqsUpTo({Cls("int"), Cls("str"), Fn("less"), Ellipsis}, MaxFig)}
ArrayDatas == {list(xs) : xs \in SeqsUpTo({int(1), str("x")}, MaxData)}

\* mapping figures over the keys "a" and "b", each absent, required or optional
MapLeaves ==
    {Cls("int"), int(1), Fn("less"), Fn("len"), Con(Fn("len"), Fn("less")),
     And(<<Cls("int"), Fn("less")>>), And(<<Fn("less")>>)}
MapEntries(k) ==
    {<<>>} \cup {<<<<key, leaf>>>> : key \in {str(k), Opt(str(k))}, leaf \in MapLeaves}
MapOf(pairs) ==
    dict([i \in 1..Len(pairs) |-> pairs[i][1]], [i \in 1..Len(pairs) |-> pairs[i][2]])
MapFigs == {MapOf(a \o b) : a \in MapEntries("a"), b \in MapEntries("b")}
DataEntries(k) == {<<>>} \cup {<<<<str(k), v>>>> : v \in {int(1), str("x")}}
MapDatas ==
    {MapOf(a \o b \o c) :
        a \in DataEntries("a"), b \in DataEntries("b"), c \in DataEntries("c")}

\* mappings nested d deep around a leaf, keyed "a", "b", ... from the outside in
KeyNames == <<"a", "b", "c", "d", "e", "f">>
KeyAt(i) == str(IF i <= Len(KeyNames) THEN KeyNames[i] ELSE "z")
RECURSIVE NestFrom(_, _, _)
NestFrom(i, d, leaf) ==
    IF i > d THEN leaf ELSE dict(<<KeyAt(i)>>, <<NestFrom(i + 1, d, leaf)>>)
Nest(d, leaf) == NestFrom(1, d, leaf)
NestFigs == {Nest(d, leaf) : d \in 1..MaxDepth, leaf \in {Cls("int"), int(1), Fn("less")}}
NestDatas == {Nest(d, v) : d \in 1..MaxDepth, v \in {int(1), int(7), str("x")}}

\* Exc around figures that pass, raise an Error or raise something else
ExcInners ==
    {Cls("int"), int(1), Fn("less"), Fn("more"), Con(Cls("int"), Fn("less")),
     list(<<Cls("int")>>)}
ExcSets ==
    {Cls("ValueError"), Cls("TypeError"), Cls("Exception"), Cls("Error"),
     Cls("BaseException"), tuple(<<Cls("ValueError"), Cls("TypeError")>>)}
ExcFigs == {Exc(inner, excs) : inner \in ExcInners, excs \in ExcSets}

\* the remaining kinds of figure, one or two of each
PlainFigs ==
    {Cls("int"), Cls("str"), Cls("object"), Cls("list"), Cls("dict"),
     int(1), int(12), str("x"), str("n"), None, nil, Ellipsis, Opt(str("a")),
     Fn("less"), Fn("more"), Fn("len"),
     Not(Cls("int")), Not(Fn("less")),
     Nex(<<int(1), int(12)>>), Nex(<<Fn("less"), Fn("more")>>), Nex(<<>>),
     And(<<Cls("int"), Fn("more")>>), And(<<Fn("len"), Fn("less")>>),
     Rou(Cls("int"), Fn("less"), nil), Rou(Cls("str"), Con(Cls("int"), Fn("less")), Fn("more")),
     Con(Fn("len"), Fn("less")), Con(Cls("int"), Cls("int"))}
PlainDatas ==
    {int(1), int(12), str("x"), str("5"), str("n"), None,
     list(<<int(1)>>), dict(<<str("a")>>, <<int(1)>>)}

Cases ==
    (ArrayFigs \X (ArrayDatas \cup PlainDatas))
    \cup (MapFigs \X (MapDatas \cup PlainDatas))
    \cup (NestFigs \X NestDatas)
    \cup (ExcFigs \X PlainDatas)
    \cup (PlainFigs \X PlainDatas)

Extras == {<<>>, <<"ignore">>, <<"ignore", "ignore">>, <<"alias">>, <<"ignore", "alias">>}

(***************************************************************************)
(* The state machine.                                                      *)
(***************************************************************************)
Init ==
    /\ \E c \in Cases : figure = c[1] /\ data = c[2]
    /\ auto \in BOOLEAN
    /\ extra \in Extras
    /\ pc = "call"
    /\ outcome = Return(None)
    /\ subchecks = 0

\* the element checks the sequence handler makes when the call reaches it with
\* the figure (under auto or hooks it is not reached with a sequence)
ElementChecks ==
    IF ~auto /\ extra = <<>> /\ figure # nil /\ selected(figure.t) = "_c_array"
    THEN ArrayRun(figure, data, auto, extra).checked
    ELSE 0

\* check(figure, data, auto, extra) runs to its return or raise
Check ==
    /\ pc = "call"
    /\ outcome' = check(figure, data, auto, extra)
    /\ subchecks' = ElementChecks
    /\ pc' = "done"
    /\ UNCHANGED <<figure, data, auto, extra>>

Next == Check

Spec == Init /\ [][Next]_vars

(***************************************************************************)
(* Properties.                                                             *)
(***************************************************************************)
Done == pc = "done"

\* a call with the defaults auto = False, extra = []
Plain == ~auto /\ extra = <<>>

\* data is an instance of the type figure T
InstanceOf(T, x) == T.t = "type" /\ issubclass(x.t, T.s)

\* checking x against the figure f alone passes
Passes(f, x) == check(f, x, FALSE, <<>>).kind = "ok"

\* the marked figure [F, ..., G] over two type figures, on a list of >= 2
MarkedPair ==
    /\ figure.t = "list" /\ Len(figure.items) = 3
    /\ figure.items[1].t = "type" /\ figure.items[2] = Ellipsis
    /\ figure.items[3].t = "type"
    /\ data.t = "list" /\ Len(data.items) >= 2

C1_Case ==
    /\ Plain /\ MarkedPair
    /\ \A i \in 1..(Len(data.items) - 1) :
          /\ InstanceOf(figure.items[1], data.items[i])
          /\ ~InstanceOf(figure.items[3], data.items[i])
    /\ InstanceOf(figure.items[3], data.items[Len(data.items)])
    /\ ~InstanceOf(figure.items[1], data.items[Len(data.items)])

\* C1: for [F, ..., G] and n >= 1 elements that match F but not G followed by
\* one element that matches G but not F, check passes and returns all n+1
\* elements in data order; the last element is checked twice (it fails the
\* repeated F, is pushed back, and is then checked by G).
C1_PushBack ==
    (Done /\ C1_Case) =>
        /\ outcome = Return(list(data.items))
        /\ subchecks = Len(data.items) + 1

C1_Witness ==
    Done /\ C1_Case /\ Len(data.items) = 3 /\ outcome.kind = "ok" /\ subchecks = 4

C2_Case ==
    /\ Plain
    /\ figure.t = "list" /\ \A i \in 1..Len(figure.items) : figure.items[i] # Ellipsis
    /\ data.t = "list"
    /\ \A i \in 1..Len(data.items) :
          i <= Len(figure.items) => Passes(figure.items[i], data.items[i])

\* C2: for a sequence figure of n fixed sub-figures and data whose elements
\* each validate at their position, fewer than n elements raise `small`
\* (with info n and the number consumed), more than n raise `large`, and
\* exactly n pass.
C2_ExactLength ==
    (Done /\ C2_Case) =>
        LET n == Len(figure.items)
            m == Len(data.items)
        IN  /\ m < n => outcome = Error("small", <<int(n), int(m)>>)
            /\ m > n => outcome = Error("large", <<int(n)>>)
            /\ m = n => outcome.kind = "ok"

C2_Witness ==
    /\ Done /\ C2_Case /\ Len(figure.items) = 2 /\ Len(data.items) = 3
    /\ outcome.code = "large"

\* the keys of a dict object, Opt keys unwrapped
Unwrap(k) == IF k.t = "Opt" THEN k.items[1] ELSE k
KeySet(d) == {d.keys[i] : i \in 1..Len(d.keys)}
HasKey(d, k) == \E i \in 1..Len(d.keys) : d.keys[i] = k
ValueAt(d, k) == d.items[CHOOSE i \in 1..Len(d.keys) : d.keys[i] = k]

C3_Case ==
    Plain /\ figure.t = "dict" /\ data.t = "dict" /\ outcome.kind = "ok"

\* the figure keys (unwrapped) that data holds
PresentKeys == {Unwrap(figure.keys[i]) : i \in 1..Len(figure.keys)} \cap KeySet(data)

\* C3 as claimed: on success the returned mapping's keys are exactly the
\* figure keys present in data, whatever kind of sub-figure validated them.
C3_AllValidatedKept == (Done /\ C3_Case) => KeySet(outcome.val) = PresentKeys

\* whether a sub-figure's check of value v hands back a value to keep: a type
\* or a literal hands back the data, a callable whatever it returns unless that
\* is True, a Con nothing, an And what its last member that hands back does
RECURSIVE HandsBack(_, _)
HandsBack(f, v) ==
    CASE f.t = "type" -> TRUE
      [] f.t = "function" -> Call(f, v).val # bool(TRUE)
      [] f.t = "Con" -> FALSE
      [] f.t = "And" -> \E i \in 1..Len(f.items) : HandsBack(f.items[i], v)
      [] OTHER -> TRUE

\* C3 amended: on success the returned mapping's keys are exactly the figure
\* keys present in data whose sub-figure handed back a value; entries validated
\* by a predicate returning True, by a Con, or by an And of such are left out,
\* and no key the figure does not mention is in the result.
C3_KeptEntries ==
    (Done /\ C3_Case) =>
        /\ KeySet(outcome.val) =
              {Unwrap(figure.keys[i]) : i \in
                  {j \in 1..Len(figure.keys) :
                      /\ HasKey(data, Unwrap(figure.keys[j]))
                      /\ HandsBack(figure.items[j], ValueAt(data, Unwrap(figure.keys[j])))}}
        /\ KeySet(outcome.val) \subseteq PresentKeys

C3_Witness ==
    /\ Done /\ C3_Case
    /\ figure = dict(<<str("a"), Opt(str("b"))>>, <<Cls("int"), Fn("less")>>)
    /\ HasKey(data, str("c"))
    /\ KeySet(outcome.val) = {str("a")}
    /\ PresentKeys = {str("a"), str("b")}

C4_Case(d, leaf, v) ==
    /\ Plain /\ figure = Nest(d, leaf) /\ data = Nest(d, v)
    /\ leaf.t \in {"type", "int"} /\ ~Passes(leaf, v)

\* C4: for mappings nested d >= 1 deep around a leaf, on data whose leaf value
\* alone fails, the raised Error's chain has exactly d+1 links: d `value`
\* errors carrying the keys from the outside in, then the leaf's own error
\* (code `type` for a type leaf), which has no cause.
C4_ChainDepth ==
    Done =>
        \A d \in 1..MaxDepth, leaf \in {Cls("int"), int(1)}, v \in {int(7), str("x")} :
            C4_Case(d, leaf, v) =>
                LET links == chain(outcome)
                IN  /\ outcome.kind = "err"
                    /\ Len(links) = d + 1
                    /\ \A i \in 1..d :
                          /\ links[i].kind = "err" /\ links[i].code = "value"
                          /\ links[i].info = <<KeyAt(i)>>
                    /\ links[d + 1] = check(leaf, v, FALSE, <<>>)
                    /\ links[d + 1].cause = <<>>
                    /\ leaf.t = "type" => links[d + 1].code = "type"

C4_Witness ==
    /\ Done /\ C4_Case(MaxDepth, Cls("int"), str("x"))
    /\ Len(chain(outcome)) = MaxDepth + 1
    /\ chain(outcome)[MaxDepth + 1].code = "type"

\* C5 as claimed: with auto true, a figure that is neither a type nor nil and
\* whose runtime type the data is no instance of makes check raise the `type`
\* error of the pre-check (info: the figure's runtime type and the data's
\* type), which no handler of the figure raises.
C5_AutoTypeError ==
    (/\ Done /\ auto /\ extra = <<>>
     /\ figure.t # "type" /\ figure # nil
     /\ ~issubclass(data.t, figure.t)) =>
        outcome = Error("type", <<Cls(figure.t), Cls(data.t)>>)

\* C6 as claimed: hooks that all return nil leave the outcome what it is with
\* no hooks.
C6_NilHooksUnchanged ==
    (/\ Done /\ extra # <<>>
     /\ \A i \in 1..Len(extra) : extra[i] = "ignore") =>
        outcome = check(figure, data, auto, <<>>)

\* C7 as claimed: when the inner figure of an Exc raises a validation Error,
\* check raises that Error itself whatever the exception set holds; an Error
\* with code `except` comes only from another exception that is in the set.
C7_ErrorNeverCaught ==
    (Done /\ Plain /\ figure.t = "Exc") =>
        LET inner == check(figure.items[1], data, FALSE, <<>>)
        IN  /\ inner.kind = "err" => outcome = inner
            /\ (outcome.kind = "err" /\ outcome.code = "except") =>
                  inner.kind = "exc" /\ Catches(figure.items[2], inner)

\* a figure the dispatch table leaves to the literal handler
IsLiteral(f) == f # nil /\ selected(f.t) = "_c_object"

C8_Case ==
    /\ Plain
    /\ \/ InstanceOf(figure, data)
       \/ IsLiteral(figure) /\ figure = data

\* C8 as claimed: a successful check of a type or of a literal figure returns
\* the "no transformation" marker.
C8_ReturnsMarker == (Done /\ C8_Case) => outcome = Return(__marker)

\* C8 amended: a successful check of a type or of a literal figure returns the
\* data value itself.
C8_ReturnsData == (Done /\ C8_Case) => outcome = Return(data)

C8_Witness ==
    Done /\ C8_Case /\ figure = Cls("int") /\ data = int(12) /\ outcome.val = int(12)

\* the number of repetition markers of a sequence figure
Markers(f) == Cardinality({i \in 1..Len(f.items) : f.items[i] = Ellipsis})

\* C9 as claimed: a sequence figure with more than one repetition marker fails
\* with the misuse error before any element is checked, whatever the data
\* sequence.
C9_TwoMarkersRejected ==
    (Done /\ Plain /\ figure.t = "list" /\ Markers(figure) > 1 /\ data.t = "list") =>
        /\ outcome = Raise("ValueError")
        /\ subchecks = 0

\* C10 as claimed: for [F, ..., G] and data of at least two elements that all
\* match both F and G, check passes, the last element being left to G.
C10_LastElementToFixed ==
    (/\ Done /\ Plain /\ MarkedPair
     /\ \A i \in 1..Len(data.items) :
           /\ InstanceOf(figure.items[1], data.items[i])
           /\ InstanceOf(figure.items[3], data.items[i])) =>
        outcome = Return(list(data.items))

====
